---- MODULE Spec2Model ----
(***************************************************************************)
(* Model of Huffman.py: generateHuffman (frequency map, greedy merge loop, *)
(* code table built by prefixing bits), generateBin's width, encode and    *)
(* decode.                                                                 *)
(*                                                                         *)
(* A Python string is a sequence of characters, so a key of frequencies    *)
(* (a group) is the sequence of its members and a key of code is one       *)
(* character.  A Python dict is a sequence of <<key, value>> pairs in      *)
(* insertion order, which is the order in which the dict is iterated.      *)
(***************************************************************************)
EXTENDS Integers, Sequences, FiniteSets, TLC

\* ------------------------------------------------------------------ bounds
NumSymbols == 4
MaxText == 5
MaxSymbols == 2
MaxBits == 4
MaxTable == 2
MaxCodeLen == 2

Letters == <<"a", "b", "c", "d", "e", "f", "g", "h">>
Alphabet == {Letters[i] : i \in 1..NumSymbols}
\* a symbol that is never part of a corpus or of a table
Stranger == "z"
Bit == {"0", "1"}

SeqsUpTo(S, n) == UNION {[1..k -> S] : k \in 0..n}

\* ------------------------------------------------------------- Python dict
DictKeys(d) == [i \in 1..Len(d) |-> d[i][1]]
DictHas(d, k) == \E i \in 1..Len(d) : d[i][1] = k
DictGet(d, k) == d[CHOOSE i \in 1..Len(d) : d[i][1] = k][2]
\* d[k] = v: an existing key keeps its position, a new key goes last
DictSet(d, k, v) ==
    IF DictHas(d, k)
    THEN [i \in 1..Len(d) |-> IF d[i][1] = k THEN <<k, v>> ELSE d[i]]
    ELSE Append(d, <<k, v>>)
DictPop(d, k) == SelectSeq(d, LAMBDA e : e[1] # k)

Range(s) == {s[i] : i \in 1..Len(s)}

\* str.count(char) for a one-character string
Count(text, char) == Cardinality({i \in 1..Len(text) : text[i] = char})

Max(S) == CHOOSE x \in S : \A y \in S : y <= x

\* ---------------------------------------------------------- generateHuffman
RECURSIVE FrequencyLoop(_, _, _)
\* lines 15-18: for char in text, record text.count(char) at first sight
FrequencyLoop(text, i, frequencies) ==
    IF i > Len(text) THEN frequencies
    ELSE FrequencyLoop(text, i + 1,
            IF DictHas(frequencies, <<text[i]>>) THEN frequencies
            ELSE DictSet(frequencies, <<text[i]>>, Count(text, text[i])))

FrequencyMap(text) == FrequencyLoop(text, 1, <<>>)

\* insert key k into a list already in descending order of frequency, after
\* every key of frequency >= its own (the sort is stable)
InsertDesc(s, k, frequencies) ==
    SelectSeq(s, LAMBDA x : DictGet(frequencies, x) >= DictGet(frequencies, k))
    \o <<k>> \o
    SelectSeq(s, LAMBDA x : DictGet(frequencies, x) < DictGet(frequencies, k))

RECURSIVE SortLoop(_, _, _)
SortLoop(frequencies, i, acc) ==
    IF i > Len(frequencies) THEN acc
    ELSE SortLoop(frequencies, i + 1,
                  InsertDesc(acc, frequencies[i][1], frequencies))

\* ascending order instead of descending
SortedAsc(frequencies) ==
    LET s == SortLoop(frequencies, 1, <<>>)
    IN  [i \in 1..Len(s) |-> s[Len(s) + 1 - i]]

\* sorted(frequencies.keys(), key=frequencies.get, reverse=True)
SortedChars(frequencies) == SortLoop(frequencies, 1, <<>>)

\* every member gets the bit "1" whatever branch it is on
PrependSame(code, group, bit, i) ==
    LET RECURSIVE P(_, _)
        P(c, j) ==
            IF j > Len(group) THEN c
            ELSE P(IF DictHas(c, group[j])
                   THEN DictSet(c, group[j], <<"1">> \o DictGet(c, group[j]))
                   ELSE DictSet(c, group[j], <<"1">>), j + 1)
    IN  P(code, i)

RECURSIVE Prepend(_, _, _, _)
\* lines 35-41 (bit "1") and 43-49 (bit "0"): for char in group from index i
Prepend(code, group, bit, i) ==
    IF i > Len(group) THEN code
    ELSE Prepend(IF DictHas(code, group[i])
                 THEN DictSet(code, group[i], <<bit>> \o DictGet(code, group[i]))
                 ELSE DictSet(code, group[i], <<bit>>),
                 group, bit, i + 1)

\* line 29: the amount added to total_bits by one merge
MergeCost(f1, f2) == f1 + f2

\* the list is not sorted again after a merge: the new group goes last
MergeStepNoResort(frequencies, sorted_chars, code, total_bits) ==
    LET n == Len(sorted_chars)
        smallest == sorted_chars[n]
        second_smallest == sorted_chars[n - 1]
        f1 == DictGet(frequencies, smallest)
        f2 == DictGet(frequencies, second_smallest)
        merged == DictSet(frequencies, smallest \o second_smallest, f1 + f2)
        remaining == DictPop(DictPop(merged, smallest), second_smallest)
    IN  [frequencies |-> remaining,
         sorted_chars |-> Append(SubSeq(sorted_chars, 1, n - 2),
                                 smallest \o second_smallest),
         code |-> Prepend(Prepend(code, smallest, "1", 1),
                          second_smallest, "0", 1),
         total_bits |-> total_bits + MergeCost(f1, f2),
         smallest |-> smallest,
         second_smallest |-> second_smallest]

\* lines 25-49: one iteration of the merge loop
MergeStep(frequencies, sorted_chars, code, total_bits) ==
    LET n == Len(sorted_chars)
        smallest == sorted_chars[n]
        second_smallest == sorted_chars[n - 1]
        f1 == DictGet(frequencies, smallest)
        f2 == DictGet(frequencies, second_smallest)
        merged == DictSet(frequencies, smallest \o second_smallest, f1 + f2)
        remaining == DictPop(DictPop(merged, smallest), second_smallest)
    IN  [frequencies |-> remaining,
         sorted_chars |-> SortedChars(remaining),
         code |-> Prepend(Prepend(code, smallest, "1", 1),
                          second_smallest, "0", 1),
         total_bits |-> total_bits + MergeCost(f1, f2),
         smallest |-> smallest,
         second_smallest |-> second_smallest]

RECURSIVE MergeLoop(_, _, _, _)
\* lines 23-49: while len(sorted_chars) > 1
MergeLoop(frequencies, sorted_chars, code, total_bits) ==
    IF Len(sorted_chars) > 1
    THEN LET r == MergeStep(frequencies, sorted_chars, code, total_bits)
         IN  MergeLoop(r.frequencies, r.sorted_chars, r.code, r.total_bits)
    ELSE [code |-> code, total_bits |-> total_bits]

\* lines 4-51; the returned average total_bits / total_chars is kept as the
\* pair of its numerator and denominator
generateHuffman(text) ==
    LET frequencies == FrequencyMap(text)
        r == MergeLoop(frequencies, SortedChars(frequencies), <<>>, 0)
    IN  [code |-> r.code, total_bits |-> r.total_bits, total_chars |-> Len(text)]

\* --------------------------------------------------------------- generateBin
RECURSIVE CeilLog2(_)
\* math.ceil(math.log(n, 2)) for n >= 1
CeilLog2(n) == IF n <= 1 THEN 0 ELSE 1 + CeilLog2((n + 1) \div 2)

\* lines 60-66: bits_per_char of generateBin
BitsPerChar(text) == CeilLog2(Cardinality(Range(text)))

\* -------------------------------------------------------------------- encode
\* a symbol without an entry is skipped
RECURSIVE encodeSkip(_, _)
encodeSkip(text, code) ==
    IF text = <<>> THEN [raised |-> FALSE, bits |-> <<>>]
    ELSE LET rest == encodeSkip(Tail(text), code)
         IN  [raised |-> FALSE,
              bits |-> (IF DictHas(code, Head(text))
                        THEN DictGet(code, Head(text)) ELSE <<>>) \o rest.bits]

RECURSIVE encodeFrom(_, _, _, _)
encodeFrom(text, code, i, result) ==
    IF i > Len(text) THEN [raised |-> FALSE, bits |-> result]
    ELSE IF ~DictHas(code, text[i]) THEN [raised |-> TRUE, bits |-> <<>>]
    ELSE encodeFrom(text, code, i + 1, result \o DictGet(code, text[i]))

\* lines 98-110; code[char] raises KeyError for a char without an entry and
\* then nothing is returned
encode(text, code) == encodeFrom(text, code, 1, <<>>)

\* -------------------------------------------------------------------- decode
\* max([len(x) for x in code.values()]), evaluated only inside the loop over
\* the items of code, so never on an empty table
MaxLen(code) == Max({Len(code[i][2]) : i \in 1..Len(code)})

\* the overflow test is >= instead of >
ScanItemsEager(running_bits, result, code, i) ==
    LET RECURSIVE S(_, _, _)
        S(rb, res, j) ==
            IF j > Len(code) THEN [running_bits |-> rb, result |-> res]
            ELSE IF rb = code[j][2] THEN S(<<>>, Append(res, code[j][1]), j + 1)
            ELSE IF Len(rb) >= MaxLen(code) THEN S(<<>>, Append(res, "?"), j + 1)
            ELSE S(rb, res, j + 1)
    IN  S(running_bits, result, i)

\* the running bits are not reset after an unknown marker
ScanItemsNoReset(running_bits, result, code, i) ==
    LET RECURSIVE S(_, _, _)
        S(rb, res, j) ==
            IF j > Len(code) THEN [running_bits |-> rb, result |-> res]
            ELSE IF rb = code[j][2] THEN S(<<>>, Append(res, code[j][1]), j + 1)
            ELSE IF Len(rb) > MaxLen(code) THEN S(rb, Append(res, "?"), j + 1)
            ELSE S(rb, res, j + 1)
    IN  S(running_bits, result, i)

RECURSIVE ScanItems(_, _, _, _)
\* lines 125-133: for char, bit_code in code.items(), from item i
ScanItems(running_bits, result, code, i) ==
    IF i > Len(code) THEN [running_bits |-> running_bits, result |-> result]
    ELSE IF running_bits = code[i][2]
         THEN ScanItems(<<>>, Append(result, code[i][1]), code, i + 1)
    ELSE IF Len(running_bits) > MaxLen(code)
         THEN ScanItems(<<>>, Append(result, "?"), code, i + 1)
    ELSE ScanItems(running_bits, result, code, i + 1)

RECURSIVE decodeFrom(_, _, _, _, _)
decodeFrom(bits, code, i, running_bits, result) ==
    IF i > Len(bits) THEN result
    ELSE LET r == ScanItems(Append(running_bits, bits[i]), result, code, 1)
         IN  decodeFrom(bits, code, i + 1, r.running_bits, r.result)

\* lines 113-135
decode(bits, code) == decodeFrom(bits, code, 1, <<>>, <<>>)

\* ------------------------------------------------------------- the program
VARIABLES
    text,             \* the corpus given to generateHuffman
    frequencies,      \* generateHuffman: dict group -> frequency
    sorted_chars,     \* generateHuffman: groups in descending frequency
    code,             \* the code table (dict char -> bit string)
    total_bits,       \* generateHuffman: accumulated merge cost
    smallest,         \* generateHuffman: group popped first in the last merge
    second_smallest,  \* generateHuffman: group popped second in the last merge
    symbols,          \* encode: the text to encode
    bits,             \* decode: the bit string to decode
    pos,              \* decode: index of the next bit of the outer loop
    running_bits,     \* decode: the bits so far
    result,           \* decode: the decoded string
    source,           \* where bits came from: "none", "encode" or "raw"
    pc                \* position in the program

vars == <<text, frequencies, sorted_chars, code, total_bits, smallest,
          second_smallest, symbols, bits, pos, running_bits, result, source, pc>>

builderVars == <<text, frequencies, sorted_chars, code, total_bits, smallest,
                 second_smallest>>
codecVars == <<symbols, bits, pos, running_bits, result, source>>

\* the non-empty corpora
Corpora == SeqsUpTo(Alphabet, MaxText) \ {<<>>}

\* The corpora whose symbols appear for the first time in the order of
\* Letters.  generateHuffman, encode and decode compare characters for
\* equality only, so every corpus is one of these with its symbols renamed.
FirstSeenInOrder(t) ==
    \A i \in 1..Len(t) : \A k \in 2..NumSymbols :
        t[i] = Letters[k] => \E j \in 1..(i - 1) : t[j] = Letters[k - 1]
OrderedCorpora == {t \in Corpora : FirstSeenInOrder(t)}

TableKeys == {Letters[i] : i \in 1..MaxTable}
Codes == SeqsUpTo(Bit, MaxCodeLen) \ {<<>>}
\* code tables of any shape with non-empty codes: the i-th item has the key
\* Letters[i] and any code, so codes may repeat or be prefixes of each other
Tables ==
    {[i \in 1..n |-> <<Letters[i], c[i]>>] :
        n \in 1..MaxTable, c \in [1..MaxTable -> Codes]}

CodecInit ==
    /\ symbols = <<>>
    /\ bits = <<>>
    /\ pos = 1
    /\ running_bits = <<>>
    /\ result = <<>>
    /\ source = "none"

BuilderInit ==
    /\ frequencies = <<>>
    /\ sorted_chars = <<>>
    /\ code = <<>>
    /\ total_bits = 0
    /\ smallest = <<>>
    /\ second_smallest = <<>>

\* generateHuffman(text) is called on a non-empty corpus
Init ==
    /\ text \in OrderedCorpora
    /\ BuilderInit
    /\ CodecInit
    /\ pc = "count"

\* lines 10-20: the frequency map and the first sort
CountFrequencies ==
    /\ pc = "count"
    /\ frequencies' = FrequencyMap(text)
    /\ sorted_chars' = SortedChars(frequencies')
    /\ pc' = "merge"
    /\ UNCHANGED <<text, code, total_bits, smallest, second_smallest>>
    /\ UNCHANGED codecVars

\* lines 23-49: one iteration of the while loop
Merge ==
    /\ pc = "merge"
    /\ Len(sorted_chars) > 1
    /\ LET r == MergeStep(frequencies, sorted_chars, code, total_bits)
       IN  /\ frequencies' = r.frequencies
           /\ sorted_chars' = r.sorted_chars
           /\ code' = r.code
           /\ total_bits' = r.total_bits
           /\ smallest' = r.smallest
           /\ second_smallest' = r.second_smallest
    /\ UNCHANGED <<text, pc>>
    /\ UNCHANGED codecVars

\* line 51: the loop ends and generateHuffman returns
Return ==
    /\ pc = "merge"
    /\ Len(sorted_chars) <= 1
    /\ pc' = "built"
    /\ UNCHANGED builderVars
    /\ UNCHANGED codecVars

\* lines 98-110: encode(symbols, code); its bits are then given to decode
EncodeFrom(chars) ==
    /\ pc = "built"
    /\ \E s \in SeqsUpTo(chars, MaxSymbols) :
        LET r == encode(s, code)
        IN  /\ symbols' = s
            /\ source' = "encode"
            /\ IF r.raised
               THEN /\ pc' = "raised"
                    /\ UNCHANGED bits
               ELSE /\ pc' = "decode"
                    /\ bits' = r.bits
    /\ UNCHANGED builderVars
    /\ UNCHANGED <<pos, running_bits, result>>

Encode == EncodeFrom(Alphabet \cup {Stranger})

\* decode is called on a bit string that no encode of this table produced
Receive ==
    /\ pc = "built"
    /\ \E b \in SeqsUpTo(Bit, MaxBits) :
        /\ bits' = b
        /\ source' = "raw"
        /\ pc' = "decode"
    /\ UNCHANGED builderVars
    /\ UNCHANGED <<symbols, pos, running_bits, result>>

\* lines 123-124: the next bit joins the running bits
AppendBit ==
    /\ pc = "decode"
    /\ pos <= Len(bits)
    /\ running_bits' = Append(running_bits, bits[pos])
    /\ pc' = "scan"
    /\ UNCHANGED builderVars
    /\ UNCHANGED <<symbols, bits, pos, result, source>>

\* lines 125-133: the running bits are compared with every item of the table
Scan ==
    /\ pc = "scan"
    /\ LET r == ScanItems(running_bits, result, code, 1)
       IN  /\ running_bits' = r.running_bits
           /\ result' = r.result
    /\ pos' = pos + 1
    /\ pc' = "decode"
    /\ UNCHANGED builderVars
    /\ UNCHANGED <<symbols, bits, source>>

\* line 135: the bits are exhausted and decode returns result
DecodeReturn ==
    /\ pc = "decode"
    /\ pos > Len(bits)
    /\ pc' = "done"
    /\ UNCHANGED builderVars
    /\ UNCHANGED codecVars

Next ==
    \/ CountFrequencies
    \/ Merge
    \/ Return
    \/ Encode
    \/ Receive
    \/ AppendBit
    \/ Scan
    \/ DecodeReturn

\* generateHuffman on every corpus, then encode and decode with its table
Spec == Init /\ [][Next]_vars

\* generateHuffman alone, on every corpus
InitBuild ==
    /\ text \in Corpora
    /\ BuilderInit
    /\ CodecInit
    /\ pc = "count"

NextBuild ==
    \/ CountFrequencies
    \/ Merge
    \/ Return

SpecBuild == InitBuild /\ [][NextBuild]_vars

\* encode and decode with a code table of any shape
InitCodec ==
    /\ text = <<>>
    /\ frequencies = <<>>
    /\ sorted_chars = <<>>
    /\ code \in Tables
    /\ total_bits = 0
    /\ smallest = <<>>
    /\ second_smallest = <<>>
    /\ CodecInit
    /\ pc = "built"

EncodeWithTable == EncodeFrom(TableKeys \cup {Stranger})

NextCodec ==
    \/ EncodeWithTable
    \/ Receive
    \/ AppendBit
    \/ Scan
    \/ DecodeReturn

SpecCodec == InitCodec /\ [][NextCodec]_vars

\* ---------------------------------------------------------------- properties
Distinct(t) == Cardinality(Range(t))
NonUniform(t) == \E x, y \in Range(t) : Count(t, x) # Count(t, y)
IsPrefix(p, q) == Len(p) <= Len(q) /\ SubSeq(q, 1, Len(p)) = p
CodeOf(table, k) == table[CHOOSE i \in 1..Len(table) : table[i][1] = k][2]
InTable(table, k) == \E i \in 1..Len(table) : table[i][1] = k
LongestCode(table) ==
    CHOOSE n \in {Len(table[i][2]) : i \in 1..Len(table)} :
        \A i \in 1..Len(table) : Len(table[i][2]) <= n
RECURSIVE SumOver(_, _, _)
\* sum over the symbols of set S of count(s) * len(table[s])
SumOver(S, t, table) ==
    IF S = {} THEN 0
    ELSE LET x == CHOOSE y \in S : TRUE
         IN  Count(t, x) * Len(CodeOf(table, x)) + SumOver(S \ {x}, t, table)
FrequencyOf(d, k) == d[CHOOSE i \in 1..Len(d) : d[i][1] = k][2]

\* C1: for every non-empty corpus, one distinct symbol included, and every
\* symbol sequence drawn from the corpus, encode succeeds and decoding its
\* bits with the Huffman table gives the sequence back, without a "?".
RoundTrip ==
    (source = "encode" /\ Range(symbols) \subseteq Range(text))
        => /\ pc # "raised"
           /\ pc = "done" => (result = symbols /\ "?" \notin Range(result))

\* C2: in the table generateHuffman returns, the code of a symbol is never a
\* prefix of the code of another symbol.
PrefixFree ==
    pc = "built" =>
        \A i, j \in 1..Len(code) : i # j => ~IsPrefix(code[i][2], code[j][2])

PrefixFreeWitness ==
    /\ pc = "built"
    /\ Len(code) = 4
    /\ \E i, j \in 1..Len(code) : Len(code[i][2]) = 1 /\ Len(code[j][2]) = 3

\* C3: for a corpus with exactly one distinct symbol s, generateHuffman
\* returns the table {s: "0"} and an average of 1.0 bits per symbol.
SingleSymbolCode ==
    (pc = "built" /\ Distinct(text) = 1)
        => /\ code = << <<text[1], <<"0">>>> >>
           /\ total_bits = Len(text)

\* C4: decode never returns normally while bits that matched no entry are
\* left in the running bits; such a residue is reported as an error.
TruncatedStreamReported == ~(pc = "done" /\ running_bits # <<>>)

\* C5: a scan in which the running bits match no entry of a non-empty table
\* adds exactly one "?" and empties the running bits when they are longer
\* than the longest code, and changes nothing otherwise; decode then goes on
\* with the next bit, and an output made of "?" only has one "?" per
\* (longest code + 1) bits of input.
GarbageDecode ==
    [][ /\ (pc = "scan" /\ \A i \in 1..Len(code) : code[i][2] # running_bits)
            => /\ pc' = "decode"
               /\ IF Len(running_bits) > LongestCode(code)
                  THEN result' = Append(result, "?") /\ running_bits' = <<>>
                  ELSE result' = result /\ running_bits' = running_bits
        /\ (pc' = "done" /\ Range(result') \subseteq {"?"})
            => Len(result') = Len(bits') \div (LongestCode(code') + 1)
      ]_vars

GarbageDecodeWitness ==
    /\ pc = "done"
    /\ source = "raw"
    /\ Len(bits) > LongestCode(code)
    /\ Len(result) >= 2
    /\ Range(result) = {"?"}

\* C6: encode of a text with a symbol that has no entry in the table raises
\* and returns no bits; it never returns the encoding of the other symbols.
UnknownSymbolRaises ==
    (source = "encode" /\ \E i \in 1..Len(symbols) : ~InTable(code, symbols[i]))
        => (pc = "raised" /\ bits = <<>>)

UnknownSymbolWitness ==
    /\ pc = "raised"
    /\ Len(symbols) = 2
    /\ InTable(code, symbols[1])
    /\ ~InTable(code, symbols[2])

\* C7: for a corpus with more than one distinct symbol and frequencies that
\* are not all equal, total_bits <= ceil(log2(distinct symbols)) * len(corpus),
\* i.e. the Huffman average is at most the width of the fixed-width code.
WeightedOptimality ==
    (pc = "built" /\ Distinct(text) > 1 /\ NonUniform(text))
        => total_bits <= BitsPerChar(text) * Len(text)

WeightedOptimalityWitness ==
    /\ pc = "built"
    /\ Distinct(text) >= 3
    /\ NonUniform(text)
    /\ total_bits < BitsPerChar(text) * Len(text)

\* C8: for every non-empty corpus, every symbol has a code, total_bits is the
\* sum over the distinct symbols of count * code length, and so it is the
\* length of encode(corpus, code).
AverageIsExpectedLength ==
    pc = "built" =>
        /\ \A x \in Range(text) : InTable(code, x)
        /\ total_bits = SumOver(Range(text), text, code)
        /\ ~encode(text, code).raised
        /\ total_bits = Len(encode(text, code).bits)

\* C9: in every iteration of the merge loop the two groups removed are the
\* last two of sorted_chars, no other group has a frequency smaller than
\* either of them, and the group that replaces them has the sum of their
\* frequencies.
GreedyMerge ==
    [][ (pc = "merge" /\ Len(sorted_chars) > 1) =>
          LET n == Len(sorted_chars)
              s1 == sorted_chars[n]
              s2 == sorted_chars[n - 1]
              others == Range(DictKeys(frequencies)) \ {s1, s2}
          IN  /\ smallest' = s1
              /\ second_smallest' = s2
              /\ \A k \in others :
                    /\ FrequencyOf(frequencies, k) >= FrequencyOf(frequencies, s1)
                    /\ FrequencyOf(frequencies, k) >= FrequencyOf(frequencies, s2)
              /\ Range(DictKeys(frequencies')) = others \cup {s1 \o s2}
              /\ FrequencyOf(frequencies', s1 \o s2) =
                    FrequencyOf(frequencies, s1) + FrequencyOf(frequencies, s2)
      ]_vars

GreedyMergeWitness ==
    /\ pc = "merge"
    /\ Len(smallest \o second_smallest) >= 2
    /\ Len(sorted_chars) >= 3
    /\ \E k \in Range(sorted_chars) :
            FrequencyOf(frequencies, k) >
                FrequencyOf(frequencies, sorted_chars[Len(sorted_chars)])

\* C10: with the Huffman table of a corpus of at least two distinct symbols,
\* whatever the bits, the running bits of decode are never longer than the
\* longest code, no "?" is emitted and every emitted symbol is in the table.
HuffmanComplete ==
    (Distinct(text) >= 2 /\ pc \in {"decode", "scan", "done"})
        => /\ Len(running_bits) <= LongestCode(code)
           /\ "?" \notin Range(result)
           /\ \A i \in 1..Len(result) : InTable(code, result[i])

HuffmanCompleteWitness ==
    /\ pc = "done"
    /\ source = "raw"
    /\ Distinct(text) >= 2
    /\ LongestCode(code) = 3
    /\ Len(bits) > LongestCode(code)
    /\ Len(result) >= 2

====
